---- MODULE Spec2Model ----
(***************************************************************************)
(* Model of the concurrent file indexer in its two variants:               *)
(*   cursor   : src/cursor/main.go (package indexer), pkg/search, pkg/cache *)
(*   windsurf : src/windsurf/indexer.go, src/unnamed/part_000 (utils, main) *)
(* Strings are sequences of one-character strings so that the path and     *)
(* text functions of the Go standard library used by the code (Ext, Base,  *)
(* Dir, ToLower, HasPrefix, Contains, Count) are computed, not assumed.    *)
(***************************************************************************)
EXTENDS Integers, Sequences, FiniteSets, TLC

VARIABLES
    variant,        \* "cursor" | "windsurf": which IndexDirectory is running
    rootOK,         \* the root passed to IndexDirectory can be lstat'ed and read
    fs,             \* per directory entry: what the filesystem does for it
    files,          \* the Index Store: idx.files / idx.index.Files
    workers,        \* idx.workers (cursor) / numWorkers (windsurf)
    indexed,        \* idx.indexed (cursor)
    skipped,        \* idx.skipped (cursor)
    pcMain,         \* position of the goroutine that called IndexDirectory
    ret,            \* what IndexDirectory returned: "none" | "nil" | "error"
    nErrs,          \* errors received by the caller's collection loop
    pcWalk,         \* position of the walker goroutine
    visited,        \* entries filepath.Walk has already handed to the callback
    cur,            \* the path the walker is sending on the paths channel
    walkErr,        \* the error filepath.Walk returned (TRUE: non-nil)
    pathsClosed,    \* paths / filesChan is closed
    errorsClosed,   \* errors / errorsChan is closed
    wpc,            \* per worker: position
    wpath,          \* per worker: path received from the channel
    wentry,         \* per worker: the FileEntry / FileIndex being filled
    wpos,           \* per worker: bytes of the file the scanner has consumed
    wline,          \* per worker: lineNum of indexFile
    pcCloser,       \* goroutine that waits for wg and closes a channel
    resultsClosed,  \* windsurf: resultsChan is closed
    pcCollect,      \* windsurf: position of the result-collecting goroutine
    colEntry,       \* windsurf: the FileIndex the collector has received
    doneClosed,     \* windsurf: done is closed
    panicked,       \* a goroutine panicked (the process is gone)
    snap,           \* what the last Index.GetFiles call returned
    prior,          \* history: paths in the store when IndexDirectory was called
    inserted,       \* history: paths inserted into the store during this run
    failed,         \* history: paths whose scan reported an error in this run
    dispatched,     \* history: paths a worker received in this run
    firstIns,       \* history: the first path inserted in this run
    raised,         \* history: errors raised by workers and the walker in this run
    cacheFile,      \* the persisted cache file
    data,           \* main: what cache.Load returned
    todo,           \* main: paths of data the reconciliation loop has yet to visit
    keyword,        \* Search: the keyword, lower-cased once Search has started
    pcSearch,       \* position of the goroutine that called Search
    spc,            \* Search: per file goroutine, its position
    sleft,          \* Search: per file goroutine, line numbers not yet examined
    smsg,           \* Search: per file goroutine, the result it is sending
    results,        \* Search: the results slice
    sClosed,        \* Search: resultsChan is closed
    disk,           \* per directory entry: the bytes of the file
    units,          \* runtime.NumCPU(): the parallel execution units configured
    lastSaved,      \* history: the last successful save, its store and the file it left
    ioErr           \* what the last save or load returned: "none" | "nil" | "error"

vars ==
    << variant, rootOK, fs, files, workers, indexed, skipped, pcMain, ret, nErrs,
       pcWalk, visited, cur, walkErr, pathsClosed, errorsClosed, wpc, wpath,
       wentry, wpos, wline, pcCloser, resultsClosed, pcCollect, colEntry, doneClosed,
       panicked, snap, prior, inserted, failed, dispatched, firstIns, raised,
       cacheFile, data, todo, keyword, pcSearch, spc, sleft, smsg, results,
       sClosed, disk, units, lastSaved, ioErr >>

-----------------------------------------------------------------------------
(* Text and path functions of the Go standard library.                      *)

LF == "\n"
CR == "\r"
Sep == "/"

UpperChars ==
    << "A","B","C","D","E","F","G","H","I","J","K","L","M",
       "N","O","P","Q","R","S","T","U","V","W","X","Y","Z" >>
LowerChars ==
    << "a","b","c","d","e","f","g","h","i","j","k","l","m",
       "n","o","p","q","r","s","t","u","v","w","x","y","z" >>

LowerOf(c) ==
    IF \E i \in 1..Len(UpperChars) : UpperChars[i] = c
    THEN LowerChars[CHOOSE i \in 1..Len(UpperChars) : UpperChars[i] = c]
    ELSE c

\* strings.ToLower
ToLower(s) == [i \in 1..Len(s) |-> LowerOf(s[i])]

\* strings.HasPrefix
HasPrefix(s, p) == Len(s) >= Len(p) /\ SubSeq(s, 1, Len(p)) = p

\* strings.Index: 0-based offset of the first occurrence of sub in s, -1 if none
Index(s, sub) ==
    LET hits == { i \in 0..(Len(s) - Len(sub)) : SubSeq(s, i + 1, i + Len(sub)) = sub }
    IN  IF hits = {} THEN -1 ELSE CHOOSE i \in hits : \A j \in hits : i <= j

\* strings.Contains
Contains(s, sub) == Index(s, sub) >= 0

\* a count of the occurrences that lets them overlap
CountOverlapping(s, sub) ==
    Cardinality({ i \in 0..(Len(s) - Len(sub)) : SubSeq(s, i + 1, i + Len(sub)) = sub })

\* strings.Count: non-overlapping occurrences; an empty sub counts runes + 1
RECURSIVE Count(_, _)
Count(s, sub) ==
    IF Len(sub) = 0 THEN Len(s) + 1
    ELSE LET i == Index(s, sub)
         IN  IF i = -1 THEN 0
             ELSE 1 + Count(SubSeq(s, i + Len(sub) + 1, Len(s)), sub)

\* 1-based positions of c in s
Positions(s, c) == { i \in 1..Len(s) : s[i] = c }
LastPos(s, c) ==
    IF Positions(s, c) = {} THEN 0
    ELSE CHOOSE i \in Positions(s, c) : \A j \in Positions(s, c) : j <= i

\* filepath.Base for a clean path (no trailing separator)
Base(path) ==
    IF Len(path) = 0 THEN << "." >>
    ELSE SubSeq(path, LastPos(path, Sep) + 1, Len(path))

\* filepath.Dir for a clean path
Dir(path) ==
    LET i == LastPos(path, Sep)
    IN  IF i = 0 THEN << "." >>
        ELSE IF i = 1 THEN << Sep >>
        ELSE SubSeq(path, 1, i - 1)

\* filepath.Ext: from the last dot of the last path element, "" if it has none
Ext(path) ==
    LET b == SubSeq(path, LastPos(path, Sep) + 1, Len(path))
        i == LastPos(b, ".")
    IN  IF i = 0 THEN << >> ELSE SubSeq(b, i, Len(b))

\* filepath.Abs: the walked paths are absolute and clean (handleIndex passes
\* filepath.Abs(dirPath) as the root), and Abs of such a path is Clean(path)
IsAbs(path) == Len(path) > 0 /\ path[1] = Sep
Abs(path) == IF IsAbs(path) THEN path ELSE << Sep >> \o path

-----------------------------------------------------------------------------
(* The Classifier of each variant.                                          *)

binaryExts ==
    { <<".","e","x","e">>, <<".","d","l","l">>, <<".","s","o">>,
      <<".","d","y","l","i","b">>, <<".","b","i","n">>, <<".","o","b","j">>,
      <<".","o">>, <<".","a">>, <<".","l","i","b">>,
      <<".","p","y","c">>, <<".","c","l","a","s","s">>, <<".","j","a","r">>,
      <<".","w","a","r">>, <<".","e","a","r">>, <<".","z","i","p">>,
      <<".","t","a","r">>, <<".","g","z">>, <<".","7","z">>,
      <<".","r","a","r">>, <<".","p","d","f">>, <<".","j","p","g">>,
      <<".","j","p","e","g">>, <<".","p","n","g">>, <<".","g","i","f">>,
      <<".","b","m","p">>, <<".","i","c","o">>, <<".","m","p","3">>,
      <<".","m","p","4">>, <<".","a","v","i">>, <<".","m","o","v">>,
      <<".","w","m","v">>, <<".","f","l","v">> }

\* cursor: isBinaryFile
isBinaryFile(path) == ToLower(Ext(path)) \in binaryExts

\* cursor: the size ceiling of the walk callback, 100 MiB
CursorMaxSize == 100 * 1024 * 1024

DefaultExcludedDirs ==
    { <<".","g","i","t">>, <<".","s","v","n">>,
      <<"n","o","d","e","_","m","o","d","u","l","e","s">>, <<"v","e","n","d","o","r">>,
      <<"b","i","n">>, <<"o","b","j">> }

DefaultExcludedExtensions ==
    { <<".","e","x","e">>, <<".","d","l","l">>, <<".","s","o">>,
      <<".","d","y","l","i","b">>, <<".","o">>, <<".","a">>,
      <<".","o","u","t">>, <<".","j","p","g">>, <<".","j","p","e","g">>,
      <<".","p","n","g">>, <<".","g","i","f">>, <<".","b","m","p">>,
      <<".","i","c","o">>, <<".","s","v","g">>, <<".","m","p","3">>,
      <<".","m","p","4">>, <<".","a","v","i">>, <<".","m","k","v">>,
      <<".","m","o","v">>, <<".","f","l","v">>, <<".","w","m","v">>,
      <<".","z","i","p">>, <<".","t","a","r">>, <<".","g","z">>,
      <<".","r","a","r">>, <<".","7","z">>, <<".","j","a","r">>,
      <<".","w","a","r">>, <<".","c","l","a","s","s">>, <<".","p","y","c">>,
      <<".","p","y","o">>, <<".","o","b","j">> }

textExtensions ==
    { <<".","t","x","t">>, <<".","m","d">>, <<".","j","s","o","n">>,
      <<".","x","m","l">>, <<".","h","t","m","l">>, <<".","h","t","m">>,
      <<".","c","s","s">>, <<".","j","s">>, <<".","g","o">>,
      <<".","p","y">>, <<".","j","a","v","a">>, <<".","c">>,
      <<".","c","p","p">>, <<".","h">>, <<".","h","p","p">>,
      <<".","c","s">>, <<".","p","h","p">>, <<".","r","b">>,
      <<".","p","l">>, <<".","s","h">>, <<".","b","a","t">>,
      <<".","p","s","1">>, <<".","y","a","m","l">>, <<".","y","m","l">>,
      <<".","t","o","m","l">>, <<".","i","n","i">>, <<".","c","f","g">>,
      <<".","c","o","n","f">>, <<".","l","o","g">>, <<".","c","s","v">>,
      <<".","t","s","v">> }

\* windsurf: the size ceiling of ShouldIndexFile, 10 MiB
WindsurfMaxSize == 10 * 1024 * 1024

\* windsurf: ShouldIndexFile, given whether os.Stat succeeded and the size
ShouldIndexFile(path, statOK, size) ==
    /\ statOK
    /\ ~(size > WindsurfMaxSize)
    /\ \A d \in DefaultExcludedDirs : ~Contains(Dir(path), d)
    /\ ToLower(Ext(path)) \notin DefaultExcludedExtensions

\* windsurf: IsTextFile
IsTextFile(path) == ToLower(Ext(path)) \in textExtensions

-----------------------------------------------------------------------------
(* The directory tree and what the filesystem does for each entry.          *)

Root == <<"/","r">>
PathA == <<"/","r","/","a",".","t","x","t">>
PathB == <<"/","r","/","b",".","B","I","N">>
PathH == <<"/","r","/",".","e","n","v">>
PathC == <<"/","r","/","c",".","g","o">>

Entries == { PathA, PathB, PathH, PathC }

\* "ok"       a readable regular file
\* "huge"     a regular file larger than both size ceilings
\* "lstaterr" filepath.Walk hands the entry to the callback with an error
\* "noopen"   os.Open fails (permission denied, removed after the check)
\* "scanerr"  the scanner stops with an error (read error, token too long)
\* "gone"     the entry does not exist
Outcomes == { "ok", "huge", "lstaterr", "noopen", "scanerr", "gone" }

\* the bytes of each file of the walked tree
TreeBytes ==
    [p \in Entries |->
        CASE p = PathA -> << "H","i",LF,"f","o","o" >>
          [] p = PathB -> << "z",LF >>
          [] p = PathH -> << "K","=","1",LF >>
          [] p = PathC -> << "x",CR,LF,LF,"y",LF >>]

\* the bytes os.Open(p) gives to the scanner
FileBytes(p) == disk[p]

\* cursor: maxScannerBufferSize, the size scanner.Buffer is given, 16 MiB
maxScannerBufferSize == 16 * 1024 * 1024

\* windsurf: bufio.MaxScanTokenSize, the limit of a bufio.NewScanner, 64 KiB
MaxScanTokenSize == 64 * 1024

\* an element of a file's bytes is one byte, or stands for a run of bytes
\* without line feed: as many as a scanner limit, or one less
Run64K == "<65536 bytes>"
Run64Kless1 == "<65535 bytes>"
Run16M == "<16777216 bytes>"
Run16Mless1 == "<16777215 bytes>"

\* the number of bytes an element stands for
ElemLen(c) ==
    CASE c = Run64K -> MaxScanTokenSize
      [] c = Run64Kless1 -> MaxScanTokenSize - 1
      [] c = Run16M -> maxScannerBufferSize
      [] c = Run16Mless1 -> maxScannerBufferSize - 1
      [] OTHER -> 1

\* len(data)
RECURSIVE ByteLen(_)
ByteLen(d) == IF Len(d) = 0 THEN 0 ELSE ElemLen(d[1]) + ByteLen(Tail(d))

\* the longest file, in elements, the scanned files are drawn from
MaxBytes == 4

\* the files the scanner is run on: every text of up to MaxBytes bytes over
\* a letter, line feed and carriage return, and texts with a long line
ShortInputs == UNION { [1..n -> {"a", LF, CR}] : n \in 0..MaxBytes }
LongInputs ==
    { << Run64K >>, << Run64Kless1 >>, << Run16M >>, << Run16Mless1 >>,
      << "a", LF, Run64K, LF >>, << Run64Kless1, LF, "a" >>,
      << Run16M, LF, "a" >>, << "a", LF, Run16Mless1, LF >> }
ScanInputs == ShortInputs \cup LongInputs

\* info.Size()
FileSize(p, outcome) ==
    IF outcome = "huge" THEN CursorMaxSize + 1 ELSE ByteLen(FileBytes(p))

\* the sizes the files of the model have
FileSizes ==
    { ByteLen(TreeBytes[e]) : e \in Entries } \cup { ByteLen(d) : d \in ScanInputs }
        \cup { CursorMaxSize + 1 }

\* info.ModTime().Unix()
FileMTime(p) == 1700000000 + Len(p)

-----------------------------------------------------------------------------
(* The File Scanner: the split functions and the record being filled.       *)

\* bytes.IndexByte(data, '\n'), 0-based, -1 if none
IndexByteLF(d) == Index(d, << LF >>)

\* a split function without the branch for a final line that has no line feed
CursorSplitDropLast(d, atEOF) ==
    IF atEOF /\ Len(d) = 0 THEN [advance |-> 0, tok |-> FALSE, token |-> << >>]
    ELSE IF IndexByteLF(d) >= 0
         THEN [advance |-> IndexByteLF(d) + 1, tok |-> TRUE,
               token |-> SubSeq(d, 1, IndexByteLF(d))]
    ELSE [advance |-> 0, tok |-> FALSE, token |-> << >>]

\* cursor: the split function of indexFile; tok = FALSE is a nil token
CursorSplit(d, atEOF) ==
    IF atEOF /\ Len(d) = 0 THEN [advance |-> 0, tok |-> FALSE, token |-> << >>]
    ELSE IF IndexByteLF(d) >= 0
         THEN [advance |-> IndexByteLF(d) + 1, tok |-> TRUE,
               token |-> SubSeq(d, 1, IndexByteLF(d))]
    ELSE IF atEOF THEN [advance |-> Len(d), tok |-> TRUE, token |-> d]
    ELSE [advance |-> 0, tok |-> FALSE, token |-> << >>]

\* bufio.dropCR
dropCR(d) ==
    IF Len(d) > 0 /\ d[Len(d)] = CR THEN SubSeq(d, 1, Len(d) - 1) ELSE d

\* windsurf: bufio.ScanLines, the default split function of bufio.NewScanner
ScanLines(d, atEOF) ==
    IF atEOF /\ Len(d) = 0 THEN [advance |-> 0, tok |-> FALSE, token |-> << >>]
    ELSE IF IndexByteLF(d) >= 0
         THEN [advance |-> IndexByteLF(d) + 1, tok |-> TRUE,
               token |-> dropCR(SubSeq(d, 1, IndexByteLF(d)))]
    ELSE IF atEOF THEN [advance |-> Len(d), tok |-> TRUE, token |-> dropCR(d)]
    ELSE [advance |-> 0, tok |-> FALSE, token |-> << >>]

SplitOf(v, d, atEOF) ==
    IF v = "cursor" THEN CursorSplit(d, atEOF) ELSE ScanLines(d, atEOF)

\* a nil *FileEntry / *FileIndex
NoEntry == [Path |-> << >>, LineIndex |-> << >>, Modified |-> 0]

\* &FileEntry{Path: absPath, LineIndex: make(map[int]string), Modified: ...}
\* windsurf keeps filePath as it was given
NewEntry(v, path) ==
    [Path |-> IF v = "cursor" THEN Abs(path) ELSE path,
     LineIndex |-> << >>,
     Modified |-> FileMTime(path)]

\* entry.LineIndex[lineNum] = scanner.Text()
SetLine(entry, lineNum, text) ==
    [entry EXCEPT !.LineIndex =
        [n \in (DOMAIN entry.LineIndex) \cup {lineNum} |->
            IF n = lineNum THEN text ELSE entry.LineIndex[n]]]

\* an insert that loses the entries other workers stored
PutLost(store, entry) == [p \in {entry.Path} |-> entry]

\* idx.files[absPath] = entry
Put(store, entry) ==
    [p \in (DOMAIN store) \cup {entry.Path} |->
        IF p = entry.Path THEN entry ELSE store[p]]

\* the whole scan of a file, as the loop over scanner.Scan() performs it
RECURSIVE ScanAll(_, _, _, _)
ScanAll(v, entry, d, lineNum) ==
    LET r == SplitOf(v, d, TRUE)
    IN  IF ~r.tok THEN entry
        ELSE ScanAll(v, SetLine(entry, lineNum, r.token),
                     SubSeq(d, r.advance + 1, Len(d)), lineNum + 1)

\* the record a successful indexFile(path) stores
FullEntry(v, path) == ScanAll(v, NewEntry(v, path), FileBytes(path), 1)

-----------------------------------------------------------------------------
(* Construction.                                                            *)

\* the largest worker count NewIndex is asked for
MaxWorkers == 2

\* windsurf: numWorkers of Indexer.IndexDirectory
NumWorkers == 4

Workers == 1..(IF MaxWorkers > NumWorkers THEN MaxWorkers ELSE NumWorkers)

\* cursor: NewIndex(workers): the pool size it stores
NewIndex(n) == IF n <= 0 THEN 1 ELSE n

EmptyStore == << >>

fixedVars == << variant, rootOK, disk, units >>
persistVars == << lastSaved, ioErr >>
winVars == << resultsClosed, pcCollect, colEntry, doneClosed >>
workerVars == << wpc, wpath, wentry, wpos, wline >>
walkVars == << pcWalk, visited, cur, walkErr >>
histVars == << prior, inserted, failed, dispatched, firstIns, raised >>
startVars == << cacheFile, data, todo >>
searchVars == << keyword, pcSearch, spc, sleft, smsg, results, sClosed >>

\* the parts of the state a specification does not use
IdleIndexing ==
    /\ ret = "none" /\ nErrs = 0
    /\ indexed = 0 /\ skipped = 0
    /\ pcWalk = "off" /\ visited = {} /\ cur = << >> /\ walkErr = FALSE
    /\ pathsClosed = FALSE /\ errorsClosed = FALSE
    /\ wpc = [w \in Workers |-> "off"]
    /\ wpath = [w \in Workers |-> << >>]
    /\ wentry = [w \in Workers |-> NoEntry]
    /\ wpos = [w \in Workers |-> 0]
    /\ wline = [w \in Workers |-> 0]
    /\ pcCloser = "off"
    /\ resultsClosed = FALSE /\ pcCollect = "off" /\ colEntry = NoEntry
    /\ doneClosed = FALSE
    /\ panicked = FALSE
    /\ prior = {} /\ inserted = {} /\ failed = {} /\ dispatched = {}
    /\ firstIns = << >> /\ raised = 0

\* a byte that is not part of any valid UTF-8 sequence, and U+FFFD
InvalidByte == "\\xff"
ReplacementChar == "\\ufffd"

\* encoding/json, a string value or an object key: the text coerced to valid
\* UTF-8, each invalid byte replaced by U+FFFD
EncodeString(s) ==
    [i \in 1..Len(s) |-> IF s[i] = InvalidByte THEN ReplacementChar ELSE s[i]]

Digits == << "0","1","2","3","4","5","6","7","8","9" >>

\* strconv.Itoa for n >= 0: how encoding/json writes an integer map key
RECURSIVE Itoa(_)
Itoa(n) ==
    IF n < 10 THEN << Digits[n + 1] >>
    ELSE Itoa(n \div 10) \o << Digits[(n % 10) + 1] >>

\* strconv.ParseInt of a string of decimal digits: how the key is read back
RECURSIVE Atoi(_)
Atoi(s) ==
    IF Len(s) = 0 THEN 0
    ELSE 10 * Atoi(SubSeq(s, 1, Len(s) - 1))
         + ((CHOOSE d \in 1..10 : Digits[d] = s[Len(s)]) - 1)

\* json.Marshal of a FileEntry / FileIndex: an object with the path, the
\* lines as an object keyed by the decimal line number, and the timestamp
MarshalEntry(entry) ==
    [path |-> EncodeString(entry.Path),
     line_index |-> { << Itoa(n), EncodeString(entry.LineIndex[n]) >> :
                        n \in DOMAIN entry.LineIndex },
     modified |-> entry.Modified]

\* json.MarshalIndent(data) / encoder.Encode(idx.index): the JSON document
Marshal(store) ==
    [k \in { EncodeString(p) : p \in DOMAIN store } |->
        MarshalEntry(store[CHOOSE p \in DOMAIN store : EncodeString(p) = k])]

\* json.Unmarshal of one object of the document into a FileEntry / FileIndex
UnmarshalEntry(obj) ==
    [Path |-> obj.path,
     LineIndex |-> [n \in { Atoi(pr[1]) : pr \in obj.line_index } |->
                      (CHOOSE pr \in obj.line_index : Atoi(pr[1]) = n)[2]],
     Modified |-> obj.modified]

\* json.Unmarshal(jsonData, &data) / decoder.Decode(&idx.index)
Unmarshal(doc) == [k \in DOMAIN doc |-> UnmarshalEntry(doc[k])]

\* the cache file: none, one that does not parse (garbage, an empty or a
\* half-written file), or one holding the JSON document of a saved store
NoCacheFile == [state |-> "absent", content |-> << >>]
CorruptCacheFile == [state |-> "corrupt", content |-> << >>]
SavedCacheFile(store) == [state |-> "saved", content |-> Marshal(store)]

IdleStartup == cacheFile = NoCacheFile /\ data = << >> /\ todo = {}

\* no save has succeeded yet
NoSave == [file |-> NoCacheFile, store |-> EmptyStore]

IdlePersist == lastSaved = NoSave /\ ioErr = "none"

IdleSearch ==
    /\ keyword = << >> /\ pcSearch = "idle"
    /\ spc = << >> /\ sleft = << >> /\ smsg = << >>
    /\ results = << >> /\ sClosed = FALSE

\* the trees the walk is run on: a root that cannot be read has no entries
Trees ==
    { t \in [Entries -> Outcomes \ {"gone"}] :
        \A e \in {PathB, PathH} : t[e] \in {"ok", "lstaterr"} }

Init ==
    /\ variant \in {"cursor", "windsurf"}
    /\ rootOK \in BOOLEAN
    /\ fs \in IF rootOK THEN Trees ELSE { [e \in Entries |-> "gone"] }
    /\ disk = TreeBytes
    /\ files = EmptyStore
    /\ units \in 0..MaxWorkers
    /\ workers = IF variant = "cursor" THEN NewIndex(units) ELSE NumWorkers
    /\ snap = EmptyStore
    /\ pcMain = "idle"
    /\ IdleIndexing /\ IdleStartup /\ IdlePersist /\ IdleSearch

-----------------------------------------------------------------------------
(* IndexDirectory: the caller's goroutine.                                  *)

\* a counter that keeps the value the run before left in it
StoreNothing(counter) == counter

\* atomic.StoreUint64(&idx.indexed, 0), atomic.StoreUint64(&idx.skipped, 0)
StoreZero(counter) == 0

\* cursor: lines 190-244; windsurf: lines 58-122.  The counters and the store
\* are reset (cursor only), the channels made and the goroutines started.
CallIndexDirectory ==
    /\ pcMain \in {"idle", "returned"}
    /\ ~panicked
    /\ indexed' = StoreZero(indexed)
    /\ skipped' = StoreZero(skipped)
    /\ files' = IF variant = "cursor" THEN EmptyStore ELSE files
    /\ workers' = IF variant = "cursor" THEN workers ELSE NumWorkers
    /\ wpc' = [w \in Workers |-> IF w <= workers' THEN "recv" ELSE "off"]
    /\ wpath' = [w \in Workers |-> << >>]
    /\ wentry' = [w \in Workers |-> NoEntry]
    /\ wpos' = [w \in Workers |-> 0]
    /\ wline' = [w \in Workers |-> 0]
    /\ pcWalk' = "root" /\ visited' = {} /\ cur' = << >> /\ walkErr' = FALSE
    /\ pathsClosed' = FALSE /\ errorsClosed' = FALSE
    /\ pcCloser' = "wait"
    /\ resultsClosed' = FALSE /\ doneClosed' = FALSE /\ colEntry' = NoEntry
    /\ pcCollect' = IF variant = "windsurf" THEN "recv" ELSE "off"
    /\ pcMain' = "collect" /\ ret' = "none" /\ nErrs' = 0
    /\ prior' = DOMAIN files /\ inserted' = {} /\ failed' = {}
    /\ dispatched' = {} /\ firstIns' = << >> /\ raised' = 0
    /\ UNCHANGED << fixedVars, persistVars, fs, panicked, snap, startVars, searchVars >>

\* windsurf: the range over errorsChan ends when the channel is closed
MainEndCollect ==
    /\ variant = "windsurf" /\ ~panicked
    /\ pcMain = "collect" /\ errorsClosed
    /\ pcMain' = "waitdone"
    /\ UNCHANGED << fixedVars, persistVars, fs, files, workers, indexed, skipped, ret,
                    nErrs, walkVars, pathsClosed, errorsClosed, workerVars,
                    pcCloser, winVars, panicked, snap, histVars, startVars,
                    searchVars >>

\* cursor: the range over errors ends, the statistics are printed, return nil
\* windsurf: <-done, then the error that counts the collected errors, or nil
MainReturn ==
    /\ ~panicked
    /\ IF variant = "cursor"
       THEN pcMain = "collect" /\ errorsClosed /\ ret' = "nil"
       ELSE pcMain = "waitdone" /\ doneClosed
            /\ ret' = IF nErrs > 0 THEN "error" ELSE "nil"
    /\ pcMain' = "returned"
    /\ UNCHANGED << fixedVars, persistVars, fs, files, workers, indexed, skipped,
                    nErrs, walkVars, pathsClosed, errorsClosed, workerVars,
                    pcCloser, winVars, panicked, snap, histVars, startVars,
                    searchVars >>

-----------------------------------------------------------------------------
(* The walker goroutine.                                                    *)

\* the cursor callback without its hidden-file test
CursorWalkFnNoHidden(path, err, isDir, size) ==
    IF err THEN "next"
    ELSE IF isDir THEN "next"
    ELSE IF isBinaryFile(path) THEN "skip"
    ELSE IF size > CursorMaxSize THEN "skip"
    ELSE "send"

\* cursor: the callback given to filepath.Walk.  What it does with an entry:
\* "next" (return nil), "skip" (count it as skipped, return nil), "send"
\* (paths <- path) or "abort" (return the error)
CursorWalkFn(path, err, isDir, size) ==
    IF err THEN "next"
    ELSE IF isDir THEN "next"
    ELSE IF isBinaryFile(path) \/ HasPrefix(Base(path), << "." >>) THEN "skip"
    ELSE IF size > CursorMaxSize THEN "skip"
    ELSE "send"

\* windsurf: the callback given to filepath.Walk
WindsurfWalkFn(path, err, isDir, size) ==
    IF err THEN "abort"
    ELSE IF isDir THEN "next"
    ELSE IF ShouldIndexFile(path, TRUE, size) /\ IsTextFile(path) THEN "send"
    ELSE "next"

WalkFn(v, path, err, isDir, size) ==
    IF v = "cursor" THEN CursorWalkFn(path, err, isDir, size)
    ELSE WindsurfWalkFn(path, err, isDir, size)

\* filepath.Walk hands the root to the callback first
WalkRoot ==
    /\ pcWalk = "root" /\ ~panicked
    /\ LET act == WalkFn(variant, Root, ~rootOK, TRUE, 0)
       IN  /\ walkErr' = (act = "abort")
           /\ pcWalk' = IF rootOK /\ act # "abort" THEN "walk" ELSE "walked"
    /\ UNCHANGED << fixedVars, persistVars, fs, files, workers, indexed, skipped,
                    pcMain, ret, nErrs, visited, cur, pathsClosed, errorsClosed,
                    workerVars, pcCloser, winVars, panicked, snap, histVars,
                    startVars, searchVars >>

\* the callback of each variant on the files of the model, as a table
WalkFnTable ==
    [v \in {"cursor", "windsurf"} |->
        [e \in Entries |->
            [err \in BOOLEAN |->
                [size \in FileSizes |-> WalkFn(v, e, err, FALSE, size)]]]]

\* what the callback does with the entry e of the tree
VisitAct(e) == WalkFnTable[variant][e][fs[e] = "lstaterr"][FileSize(e, fs[e])]

\* filepath.Walk hands one more entry of the tree to the callback
WalkVisit(e) ==
    /\ pcWalk = "walk" /\ ~panicked
    /\ e \notin visited /\ fs[e] # "gone"
    /\ visited' = visited \cup {e}
    /\ skipped' = IF VisitAct(e) = "skip" THEN skipped + 1 ELSE skipped
    /\ cur' = IF VisitAct(e) = "send" THEN e ELSE cur
    /\ walkErr' = (VisitAct(e) = "abort")
    /\ pcWalk' = CASE VisitAct(e) = "send" -> "send"
                   [] VisitAct(e) = "abort" -> "walked"
                   [] OTHER -> "walk"
    /\ UNCHANGED << fixedVars, persistVars, fs, files, workers, indexed, pcMain, ret,
                    nErrs, pathsClosed, errorsClosed, workerVars, pcCloser,
                    winVars, panicked, snap, histVars, startVars, searchVars >>

\* paths <- path: the unbuffered send meets a worker waiting in its range.
\* The workers run the same code and a waiting worker holds no data, so the
\* waiting worker with the lowest index stands for whichever one the runtime wakes
WalkSend(w) ==
    /\ pcWalk = "send" /\ ~panicked
    /\ wpc[w] = "recv"
    /\ \A v \in Workers : v < w => wpc[v] # "recv"
    /\ wpath' = [wpath EXCEPT ![w] = cur]
    /\ wpc' = [wpc EXCEPT ![w] = "open"]
    /\ dispatched' = dispatched \cup {cur}
    /\ pcWalk' = "walk"
    /\ UNCHANGED << fixedVars, persistVars, fs, files, workers, indexed, skipped,
                    pcMain, ret, nErrs, visited, cur, walkErr, pathsClosed,
                    errorsClosed, wentry, wpos, wline, pcCloser, winVars,
                    panicked, snap, prior, inserted, failed, firstIns, raised,
                    startVars, searchVars >>

\* filepath.Walk has handed over every entry and returns nil
WalkEnd ==
    /\ pcWalk = "walk" /\ ~panicked
    /\ \A e \in Entries : e \in visited \/ fs[e] = "gone"
    /\ walkErr' = FALSE
    /\ pcWalk' = "walked"
    /\ UNCHANGED << fixedVars, persistVars, fs, files, workers, indexed, skipped,
                    pcMain, ret, nErrs, visited, cur, pathsClosed, errorsClosed,
                    workerVars, pcCloser, winVars, panicked, snap, histVars,
                    startVars, searchVars >>

\* a cursor walker goroutine without its deferred close(paths)
WalkReturnedNoClose ==
    /\ pcWalk = "walked" /\ ~panicked
    /\ pathsClosed' = pathsClosed
    /\ pcWalk' = "done"
    /\ UNCHANGED << fixedVars, persistVars, fs, files, workers, indexed, skipped,
                    pcMain, ret, nErrs, visited, cur, walkErr, errorsClosed,
                    workerVars, pcCloser, winVars, panicked, snap, histVars,
                    startVars, searchVars >>

\* after filepath.Walk returned.  cursor: a non-nil error is sent first and
\* the deferred close(paths) runs last; windsurf: close(filesChan) comes first
WalkReturned ==
    /\ pcWalk = "walked" /\ ~panicked
    /\ IF variant = "cursor"
       THEN /\ pathsClosed' = ~walkErr
            /\ pcWalk' = IF walkErr THEN "senderr" ELSE "done"
       ELSE /\ pathsClosed' = TRUE
            /\ pcWalk' = IF walkErr THEN "senderr" ELSE "closeerrs"
    /\ UNCHANGED << fixedVars, persistVars, fs, files, workers, indexed, skipped,
                    pcMain, ret, nErrs, visited, cur, walkErr, errorsClosed,
                    workerVars, pcCloser, winVars, panicked, snap, histVars,
                    startVars, searchVars >>

\* errors <- walk error / errorsChan <- err: met by the caller's range loop
WalkSendErr ==
    /\ pcWalk = "senderr" /\ ~panicked
    /\ pcMain = "collect" /\ ~errorsClosed
    /\ nErrs' = nErrs + 1
    /\ raised' = raised + 1
    /\ pathsClosed' = TRUE
    /\ pcWalk' = IF variant = "cursor" THEN "done" ELSE "closeerrs"
    /\ UNCHANGED << fixedVars, persistVars, fs, files, workers, indexed, skipped,
                    pcMain, ret, visited, cur, walkErr, errorsClosed, workerVars,
                    pcCloser, winVars, panicked, snap, prior, inserted, failed,
                    dispatched, firstIns, startVars, searchVars >>

\* windsurf: close(errorsChan), the last statement of the walker goroutine
WalkCloseErrors ==
    /\ variant = "windsurf" /\ ~panicked
    /\ pcWalk = "closeerrs"
    /\ errorsClosed' = TRUE
    /\ pcWalk' = "done"
    /\ UNCHANGED << fixedVars, persistVars, fs, files, workers, indexed, skipped,
                    pcMain, ret, nErrs, visited, cur, walkErr, pathsClosed,
                    workerVars, pcCloser, winVars, panicked, snap, histVars,
                    startVars, searchVars >>

-----------------------------------------------------------------------------
(* The worker goroutines and indexFile.                                     *)

\* the worker is back at the head of its range loop: the locals of the
\* iteration that ended are dead
Idle(w) ==
    /\ wpc' = [wpc EXCEPT ![w] = "recv"]
    /\ wpath' = [wpath EXCEPT ![w] = << >>]
    /\ wentry' = [wentry EXCEPT ![w] = NoEntry]
    /\ wpos' = [wpos EXCEPT ![w] = 0]
    /\ wline' = [wline EXCEPT ![w] = 0]

\* the range over paths / filesChan ends: the channel is closed, wg.Done()
WorkerExit(w) ==
    /\ wpc[w] = "recv" /\ ~panicked
    /\ pathsClosed
    /\ wpc' = [wpc EXCEPT ![w] = "done"]
    /\ UNCHANGED << fixedVars, persistVars, fs, files, workers, indexed, skipped,
                    pcMain, ret, nErrs, walkVars, pathsClosed, errorsClosed,
                    wpath, wentry, wpos, wline, pcCloser, winVars, panicked,
                    snap, histVars, startVars, searchVars >>

\* indexFile up to the scanner: os.Open and file.Stat fail or the entry is made
OpenFails(outcome) == outcome \in {"noopen", "gone"}

WorkerOpen(w) ==
    /\ wpc[w] = "open" /\ ~panicked
    /\ IF OpenFails(fs[wpath[w]])
       THEN /\ wpc' = [wpc EXCEPT ![w] = "senderr"]
            /\ raised' = raised + 1
            /\ UNCHANGED << wentry, wpos, wline >>
       ELSE /\ wpc' = [wpc EXCEPT ![w] = "scan"]
            /\ wentry' = [wentry EXCEPT ![w] = NewEntry(variant, wpath[w])]
            /\ wpos' = [wpos EXCEPT ![w] = 0]
            /\ wline' = [wline EXCEPT ![w] = 1]
            /\ UNCHANGED raised
    /\ UNCHANGED << fixedVars, persistVars, fs, files, workers, indexed, skipped,
                    pcMain, ret, nErrs, walkVars, pathsClosed, errorsClosed,
                    wpath, pcCloser, winVars, panicked, snap, prior, inserted,
                    failed, dispatched, firstIns, startVars, searchVars >>

\* where a worker goes once its scan loop ended without an error.
\* cursor: indexFile stores the entry itself; windsurf: it is sent to the collector
AfterScan(v) == IF v = "cursor" THEN "store" ELSE "sendres"

\* a scan loop that stops after the first line
ScanLoopNextEarly(v, more) == AfterScan(v)

\* for scanner.Scan() { ... }: the loop goes on while Scan returns true
ScanLoopNext(v, more) == IF more THEN "scan" ELSE AfterScan(v)

\* the most bytes the scanner's buffer grows to.  cursor: scanner.Buffer(buf,
\* maxScannerBufferSize); windsurf: the limit bufio.NewScanner starts with
BufferLimit(v) ==
    IF v = "cursor" THEN maxScannerBufferSize ELSE MaxScanTokenSize

\* the bytes of d before its first line feed, all of d if it has none
NextLine(d) ==
    IF IndexByteLF(d) >= 0 THEN SubSeq(d, 1, IndexByteLF(d)) ELSE d

\* bufio.Scanner.Scan: the split function is shown what the buffer holds; when
\* the buffer is full, as large as the limit, and holds no line feed, Scan
\* stops with ErrTooLong.  A line followed by its line feed fits if it is
\* shorter than the limit, and so does a last line without one
TooLong(v, d) == ByteLen(NextLine(d)) >= BufferLimit(v)

\* one scanner.Scan() of the loop: the next line goes into the entry, or the
\* loop ends; on a file whose scan fails the scanner stops with an error at
\* some call, the last one at the latest, and the entry is dropped
WorkerScan(w) ==
    /\ wpc[w] = "scan" /\ ~panicked
    /\ LET bytes == FileBytes(wpath[w])
           rest == SubSeq(bytes, wpos[w] + 1, Len(bytes))
           r == SplitOf(variant, rest, TRUE)
           errs == IF TooLong(variant, rest) THEN {TRUE}
                   ELSE IF fs[wpath[w]] # "scanerr" THEN {FALSE}
                   ELSE IF r.tok THEN BOOLEAN ELSE {TRUE}
       IN  \E err \in errs :
             IF err
             THEN /\ wpc' = [wpc EXCEPT ![w] = "senderr"]
                  /\ raised' = raised + 1
                  /\ UNCHANGED << wentry, wpos, wline >>
             ELSE IF r.tok
             THEN /\ wentry' = [wentry EXCEPT ![w] = SetLine(@, wline[w], r.token)]
                  /\ wline' = [wline EXCEPT ![w] = @ + 1]
                  /\ wpos' = [wpos EXCEPT ![w] = @ + r.advance]
                  /\ wpc' = [wpc EXCEPT ![w] = ScanLoopNext(variant, TRUE)]
                  /\ UNCHANGED raised
             ELSE /\ wpc' = [wpc EXCEPT ![w] = ScanLoopNext(variant, FALSE)]
                  /\ UNCHANGED << wentry, wpos, wline, raised >>
    /\ UNCHANGED << fixedVars, persistVars, fs, files, workers, indexed, skipped,
                    pcMain, ret, nErrs, walkVars, pathsClosed, errorsClosed,
                    wpath, pcCloser, winVars, panicked, snap, prior, inserted,
                    failed, dispatched, firstIns, startVars, searchVars >>

\* cursor: idx.files[absPath] = entry under the write lock, indexFile returns
\* nil and the worker adds one to idx.indexed
WorkerStore(w) ==
    /\ variant = "cursor" /\ ~panicked
    /\ wpc[w] = "store"
    /\ files' = Put(files, wentry[w])
    /\ indexed' = indexed + 1
    /\ inserted' = inserted \cup {wentry[w].Path}
    /\ firstIns' = IF inserted = {} THEN wentry[w].Path ELSE firstIns
    /\ Idle(w)
    /\ UNCHANGED << fixedVars, persistVars, fs, workers, skipped, pcMain, ret, nErrs,
                    walkVars, pathsClosed, errorsClosed, pcCloser, winVars,
                    panicked, snap, prior, failed, dispatched, raised,
                    startVars, searchVars >>

\* windsurf: resultsChan <- fileIndex, met by the collector's range loop
WorkerSendResult(w) ==
    /\ variant = "windsurf" /\ ~panicked
    /\ wpc[w] = "sendres"
    /\ pcCollect = "recv" /\ ~resultsClosed
    /\ colEntry' = wentry[w]
    /\ pcCollect' = "insert"
    /\ Idle(w)
    /\ UNCHANGED << fixedVars, persistVars, fs, files, workers, indexed, skipped,
                    pcMain, ret, nErrs, walkVars, pathsClosed, errorsClosed,
                    pcCloser, resultsClosed, doneClosed, panicked, snap,
                    histVars, startVars, searchVars >>

\* errors <- err / errorsChan <- err: met by the caller's range loop; a send
\* on a channel that has been closed panics
WorkerSendErr(w) ==
    /\ wpc[w] = "senderr" /\ ~panicked
    /\ IF errorsClosed
       THEN /\ panicked' = TRUE
            /\ UNCHANGED << nErrs, failed, workerVars >>
       ELSE /\ pcMain = "collect"
            /\ nErrs' = nErrs + 1
            /\ failed' = failed \cup {wpath[w]}
            /\ Idle(w)
            /\ UNCHANGED panicked
    /\ UNCHANGED << fixedVars, persistVars, fs, files, workers, indexed, skipped,
                    pcMain, ret, walkVars, pathsClosed, errorsClosed, pcCloser,
                    winVars, snap, prior, inserted, dispatched, firstIns,
                    raised, startVars, searchVars >>

-----------------------------------------------------------------------------
(* The goroutines that close channels, the collector, and GetFiles.         *)

\* a wait group that does not wait for the workers
WaitGroupZeroNoWait == TRUE

\* wg.Wait() returns once every worker has called wg.Done()
WaitGroupZero == \A w \in Workers : wpc[w] \in {"off", "done"}

\* cursor: wg.Wait(); close(errors).  windsurf: wg.Wait(); close(resultsChan)
CloserFire ==
    /\ pcCloser = "wait" /\ ~panicked
    /\ WaitGroupZero
    /\ errorsClosed' = IF variant = "cursor" THEN TRUE ELSE errorsClosed
    /\ resultsClosed' = IF variant = "cursor" THEN resultsClosed ELSE TRUE
    /\ pcCloser' = "done"
    /\ UNCHANGED << fixedVars, persistVars, fs, files, workers, indexed, skipped,
                    pcMain, ret, nErrs, walkVars, pathsClosed, workerVars,
                    pcCollect, colEntry, doneClosed, panicked, snap, histVars,
                    startVars, searchVars >>

\* windsurf: idx.index.Files[fileIndex.Path] = fileIndex under the lock
CollectInsert ==
    /\ variant = "windsurf" /\ ~panicked
    /\ pcCollect = "insert"
    /\ files' = Put(files, colEntry)
    /\ inserted' = inserted \cup {colEntry.Path}
    /\ firstIns' = IF inserted = {} THEN colEntry.Path ELSE firstIns
    /\ colEntry' = NoEntry
    /\ pcCollect' = "recv"
    /\ UNCHANGED << fixedVars, persistVars, fs, workers, indexed, skipped, pcMain, ret,
                    nErrs, walkVars, pathsClosed, errorsClosed, workerVars,
                    pcCloser, resultsClosed, doneClosed, panicked, snap, prior,
                    failed, dispatched, raised, startVars, searchVars >>

\* windsurf: the range over resultsChan ends, close(done)
CollectDone ==
    /\ variant = "windsurf" /\ ~panicked
    /\ pcCollect = "recv" /\ resultsClosed
    /\ doneClosed' = TRUE
    /\ pcCollect' = "done"
    /\ UNCHANGED << fixedVars, persistVars, fs, files, workers, indexed, skipped,
                    pcMain, ret, nErrs, walkVars, pathsClosed, errorsClosed,
                    workerVars, pcCloser, resultsClosed, colEntry, panicked,
                    snap, histVars, startVars, searchVars >>

\* cursor: Index.GetFiles: a new map with the entries of idx.files, made
\* under the read lock
CopyMap(store) == [p \in DOMAIN store |-> store[p]]

GetFiles ==
    /\ variant = "cursor" /\ ~panicked
    /\ pcMain \in {"collect", "returned"}
    /\ snap' = CopyMap(files)
    /\ UNCHANGED << fixedVars, persistVars, fs, files, workers, indexed, skipped,
                    pcMain, ret, nErrs, walkVars, pathsClosed, errorsClosed,
                    workerVars, pcCloser, winVars, panicked, histVars,
                    startVars, searchVars >>

\* the environment, between two runs: an indexed file is removed from the tree
FileRemoved(e) ==
    /\ pcMain \in {"returned", "idle"} /\ ~panicked
    /\ e \in DOMAIN files /\ fs[e] = "ok"
    /\ fs' = [fs EXCEPT ![e] = "gone"]
    /\ pcMain' = "idle"
    /\ UNCHANGED << fixedVars, persistVars, files, workers, indexed, skipped,
                    ret, nErrs, walkVars, pathsClosed, errorsClosed, workerVars,
                    pcCloser, winVars, panicked, snap, histVars, startVars,
                    searchVars >>

Next ==
    \/ CallIndexDirectory
    \/ MainEndCollect
    \/ MainReturn
    \/ WalkRoot
    \/ \E e \in Entries : WalkVisit(e)
    \/ \E w \in Workers : WalkSend(w)
    \/ WalkEnd
    \/ WalkReturned
    \/ WalkSendErr
    \/ WalkCloseErrors
    \/ \E w \in Workers : WorkerExit(w)
    \/ \E w \in Workers : WorkerOpen(w)
    \/ \E w \in Workers : WorkerScan(w)
    \/ \E w \in Workers : WorkerStore(w)
    \/ \E w \in Workers : WorkerSendResult(w)
    \/ \E w \in Workers : WorkerSendErr(w)
    \/ CloserFire
    \/ CollectInsert
    \/ CollectDone
    \/ GetFiles
    \/ \E e \in Entries : FileRemoved(e)

Spec == Init /\ [][Next]_vars

-----------------------------------------------------------------------------
(* Properties of IndexDirectory, checked under Spec.                        *)

\* the key under which a variant stores the record of a walked path
KeyOf(v, path) == NewEntry(v, path).Path

\* the regular files of the tree that pass the cursor eligibility checks
\* (extension not binary, name not hidden, size within 100 MiB) and whose
\* scan succeeds
CursorIndexable ==
    { e \in Entries :
        /\ fs[e] = "ok"
        /\ ToLower(Ext(e)) \notin binaryExts
        /\ Base(e)[1] # "."
        /\ FileSize(e, fs[e]) <= CursorMaxSize }

Returned == pcMain = "returned"

\* C1: cursor: when IndexDirectory returns, the store holds one record, under
\* its own path, for each eligible file whose scan succeeded, and no record
\* for an excluded file or a file whose scan failed
C1_StoreHoldsEligibleScanned ==
    (variant = "cursor" /\ Returned) =>
        /\ DOMAIN files = { Abs(e) : e \in CursorIndexable }
        /\ \A p \in DOMAIN files : files[p].Path = p

\* a run in which one file failed to scan, files were excluded and another
\* eligible file was still inserted
C1_Witness ==
    /\ variant = "cursor" /\ Returned
    /\ failed # {} /\ skipped >= 2
    /\ DOMAIN files # {}

\* the entries the walk hands to the callback as regular files
CursorRegular == { e \in Entries : fs[e] \notin {"gone", "lstaterr"} }

\* the regular files an eligibility check of the cursor callback rejects
CursorRejected ==
    { e \in CursorRegular :
        \/ ToLower(Ext(e)) \in binaryExts
        \/ Base(e)[1] = "."
        \/ FileSize(e, fs[e]) > CursorMaxSize }

\* C21: cursor: at the return of IndexDirectory indexed is the number of
\* records in the store, skipped the number of regular files rejected in this
\* run, and indexed, skipped and the failed files add up to the regular
\* files of the walk, whatever an earlier run counted
C21_CountersMatchRun ==
    (variant = "cursor" /\ Returned) =>
        /\ indexed = Cardinality(DOMAIN files)
        /\ skipped = Cardinality(CursorRejected)
        /\ failed \subseteq CursorRegular \ CursorRejected
        /\ indexed + skipped + Cardinality(failed) = Cardinality(CursorRegular)

\* the second run on an Index whose first run stored a record: one file is
\* stored, two are rejected and one fails
C21_Witness ==
    /\ variant = "cursor" /\ Returned
    /\ prior # {}
    /\ indexed = 1 /\ skipped = 2 /\ Cardinality(failed) = 1

\* the workers that are inside indexFile
Scanning == { w \in Workers : wpc[w] \in {"open", "scan", "store"} }

\* the worker goroutines IndexDirectory started
Started == { w \in Workers : wpc[w] # "off" }

\* C22: both variants: no more files are scanned at the same time than the
\* pool has workers, and the pool of a run has as many workers as parallel
\* execution units are configured, one if that number is one, zero or less
C22_PoolIsConfiguredUnits ==
    /\ Cardinality(Scanning) <= (IF units <= 0 THEN 1 ELSE units)
    /\ pcMain = "collect" =>
          Cardinality(Started) = (IF units <= 0 THEN 1 ELSE units)

\* C4: both variants: at the return of IndexDirectory the walker has finished,
\* no worker is scanning, no scanned record waits to be inserted, and every
\* dispatched path was inserted or reported as failed
C4_ReturnAfterAllWork ==
    Returned =>
        /\ pcWalk = "done"
        /\ \A w \in Workers : wpc[w] \in {"off", "done"}
        /\ pcCollect \in {"off", "done"} /\ colEntry = NoEntry
        /\ \A p \in dispatched : KeyOf(variant, p) \in inserted \/ p \in failed

\* a windsurf run that returned after one insert and one reported failure
C4_Witness ==
    /\ variant = "windsurf" /\ Returned
    /\ inserted # {} /\ failed # {}
    /\ dispatched = {PathA, PathC}

\* C5: windsurf: no worker sends on errorsChan after the walker closed it
\* (the send panics), and the error returned counts every error raised
C5_ErrorsReceivedBeforeClose ==
    variant = "windsurf" =>
        /\ ~panicked
        /\ Returned => nErrs = raised

\* C6: both variants: a root that cannot be read makes IndexDirectory return
\* a non-nil error
C6_RootErrorReturned ==
    (Returned /\ ~rootOK) => ret = "error"

\* the files a variant's Classifier accepts and whose scan succeeds
Indexable(v) ==
    { e \in Entries :
        fs[e] = "ok" /\ WalkFn(v, e, FALSE, FALSE, FileSize(e, fs[e])) = "send" }

\* C7: both variants: an error on one non-root entry does not stop the walk:
\* every eligible readable file of the tree is in the store at the return
C7_EntryErrorSkipped ==
    (Returned /\ rootOK /\ \E e \in Entries : fs[e] = "lstaterr") =>
        \A e \in Indexable(variant) : KeyOf(variant, e) \in DOMAIN files

\* C8: both variants: at the return the store holds no record from before
\* the run, only records of paths scanned in this run
C8_FullReplacement ==
    Returned => DOMAIN files \subseteq inserted

\* the record the cursor scanner makes of each indexable file: what the
\* store must hold whatever the order of the walk and of the workers
CursorExpectedStore ==
    [p \in { Abs(e) : e \in CursorIndexable } |->
        FullEntry("cursor", CHOOSE e \in CursorIndexable : Abs(e) = p)]

\* C9: cursor: the store at the return is a function of the tree and of the
\* scan outcomes alone, for every walk order, pool size and interleaving
C9_StoreIndependentOfSchedule ==
    (variant = "cursor" /\ Returned) => files = CursorExpectedStore

\* two workers, two files stored, the one that sorts last stored first
C9_Witness ==
    /\ variant = "cursor" /\ Returned
    /\ workers = 2
    /\ DOMAIN files = {PathA, PathC}
    /\ firstIns = PathC

\* C10: cursor: a record is in the store, and in any snapshot GetFiles took,
\* only complete: it holds every line of its file, and no worker is still
\* scanning that path
C10_NoPartialRecordVisible ==
    variant = "cursor" =>
        /\ \A p \in DOMAIN snap : snap[p] = FullEntry("cursor", p)
        /\ \A p \in DOMAIN files :
              /\ files[p] = FullEntry("cursor", p)
              /\ \A w \in Workers :
                    wpc[w] \in {"open", "scan", "store"} => Abs(wpath[w]) # p

\* a snapshot taken during a run that holds one record while a worker is in
\* the middle of scanning another file
C10_Witness ==
    /\ variant = "cursor" /\ pcMain = "collect"
    /\ DOMAIN snap # {}
    /\ \E w \in Workers :
          /\ wpc[w] = "scan" /\ wline[w] > 1
          /\ Abs(wpath[w]) \notin DOMAIN snap
          /\ wentry[w] # FullEntry("cursor", wpath[w])

\* C15: both variants: a run on a root that can be traversed, in which
\* nothing but the open or the scan of individual files fails, returns no
\* error
C15_OnlyRootFailureIsError ==
    ( /\ Returned /\ rootOK
      /\ \A e \in Entries : fs[e] # "lstaterr" ) =>
        ret = "nil"

-----------------------------------------------------------------------------
(* cursor: search.Search, one goroutine per file of the snapshot.           *)

runVars ==
    << indexed, skipped, ret, nErrs, walkVars, pathsClosed, errorsClosed,
       workerVars, pcCloser, winVars, panicked, histVars >>

\* SearchResult{FilePath, LineNumber, Line, MatchCount}
SearchResult(path, lineNum, line, count) ==
    [FilePath |-> path, LineNumber |-> lineNum, Line |-> line, MatchCount |-> count]

\* a count taken on the line as it is, its case kept
LineCountCaseSensitive(line, kw) == Count(line, kw)

\* searchFile, for one line: strings.Count(strings.ToLower(line), keyword)
LineCount(line, kw) == Count(ToLower(line), kw)

\* the lines of the searched stores and the keywords searched for
SearchLines == { << "a","A","a" >>, << "b","B" >> }
Keywords == { << "a" >>, << "A","a" >>, << "B" >>, << >> }

\* the counts of searchFile on those lines and keywords, as a table
LineCountTable ==
    [line \in SearchLines |->
        [kw \in { ToLower(k) : k \in Keywords } |-> LineCount(line, kw)]]

\* the count of searchFile for one line, taken from the table where it has it
MatchCount(line, kw) ==
    IF line \in DOMAIN LineCountTable /\ kw \in DOMAIN LineCountTable[line]
    THEN LineCountTable[line][kw]
    ELSE LineCount(line, kw)

\* Search up to its collection loop: the snapshot is taken, the keyword is
\* lower-cased, a goroutine is started for each file and one to close the channel
CallSearch ==
    /\ pcSearch = "idle" /\ pcMain \in {"idle", "command"}
    /\ snap' = CopyMap(files)
    /\ keyword' = ToLower(keyword)
    /\ spc' = [p \in DOMAIN files |-> "run"]
    /\ sleft' = [p \in DOMAIN files |-> DOMAIN files[p].LineIndex]
    /\ smsg' = [p \in DOMAIN files |-> SearchResult(p, 0, << >>, 0)]
    /\ results' = << >>
    /\ sClosed' = FALSE
    /\ pcSearch' = "collect"
    /\ pcMain' = IF pcMain = "command" THEN "search" ELSE pcMain
    /\ UNCHANGED << fixedVars, persistVars, fs, files, workers, runVars, startVars >>

\* searchFile: the range over entry.LineIndex reaches one more line, in any
\* order; a line with occurrences makes a result to send
SearchLine(p, n) ==
    /\ pcSearch = "collect"
    /\ spc[p] = "run"
    /\ n \in sleft[p]
    /\ sleft' = [sleft EXCEPT ![p] = @ \ {n}]
    /\ LET line == snap[p].LineIndex[n]
           count == MatchCount(line, keyword)
       IN  IF count > 0
           THEN /\ smsg' = [smsg EXCEPT ![p] = SearchResult(p, n, line, count)]
                /\ spc' = [spc EXCEPT ![p] = "send"]
           ELSE UNCHANGED << smsg, spc >>
    /\ UNCHANGED << fixedVars, persistVars, fs, files, workers, pcMain, runVars, snap,
                    startVars, keyword, pcSearch, results, sClosed >>

\* results <- SearchResult{...}: met by the range loop of Search, which
\* appends a result that has matches
SearchSend(p) ==
    /\ pcSearch = "collect" /\ ~sClosed
    /\ spc[p] = "send"
    /\ results' = IF smsg[p].MatchCount > 0 THEN Append(results, smsg[p]) ELSE results
    /\ spc' = [spc EXCEPT ![p] = "run"]
    /\ UNCHANGED << fixedVars, persistVars, fs, files, workers, pcMain, runVars, snap,
                    startVars, keyword, pcSearch, sleft, smsg, sClosed >>

\* searchFile returns: the range over the lines ended, wg.Done()
SearchFileDone(p) ==
    /\ pcSearch = "collect"
    /\ spc[p] = "run"
    /\ sleft[p] = {}
    /\ spc' = [spc EXCEPT ![p] = "done"]
    /\ UNCHANGED << fixedVars, persistVars, fs, files, workers, pcMain, runVars, snap,
                    startVars, keyword, pcSearch, sleft, smsg, results, sClosed >>

\* a closer that does not wait for the file goroutines: close(resultsChan)
\* with no wg.Wait() before it
SearchCloserNoWait ==
    /\ pcSearch = "collect" /\ ~sClosed
    /\ sClosed' = TRUE
    /\ UNCHANGED << fixedVars, persistVars, fs, files, workers, pcMain, runVars, snap,
                    startVars, keyword, pcSearch, spc, sleft, smsg, results >>

\* wg.Wait(); close(resultsChan)
SearchCloser ==
    /\ pcSearch = "collect" /\ ~sClosed
    /\ \A p \in DOMAIN spc : spc[p] = "done"
    /\ sClosed' = TRUE
    /\ UNCHANGED << fixedVars, persistVars, fs, files, workers, pcMain, runVars, snap,
                    startVars, keyword, pcSearch, spc, sleft, smsg, results >>

\* the range over resultsChan ends: Search returns results
SearchReturn ==
    /\ pcSearch = "collect" /\ sClosed
    /\ pcSearch' = "returned"
    /\ UNCHANGED << fixedVars, persistVars, fs, files, workers, pcMain, runVars, snap,
                    startVars, keyword, spc, sleft, smsg, results, sClosed >>

SearchNext ==
    \/ CallSearch
    \/ \E p \in DOMAIN spc : \E n \in sleft[p] : SearchLine(p, n)
    \/ \E p \in DOMAIN spc : SearchSend(p)
    \/ \E p \in DOMAIN spc : SearchFileDone(p)
    \/ SearchCloser
    \/ SearchReturn

\* the most lines a file of a searched store has
MaxLines == 2

LineIndexes ==
    UNION { [1..n -> SearchLines] : n \in 0..MaxLines }

\* the stores a search runs on: records as indexFile makes them, each under
\* its own path with lines numbered from 1
SearchStores ==
    UNION { [ps -> LineIndexes] : ps \in SUBSET {PathA, PathC} }

InitSearch ==
    /\ variant = "cursor"
    /\ rootOK = TRUE
    /\ fs = [e \in Entries |-> "ok"]
    /\ disk = TreeBytes
    /\ \E st \in SearchStores :
          files = [p \in DOMAIN st |->
                      [Path |-> p, LineIndex |-> st[p], Modified |-> FileMTime(p)]]
    /\ units = MaxWorkers
    /\ workers = NewIndex(units)
    /\ snap = EmptyStore
    /\ pcMain = "idle"
    /\ IdleIndexing /\ IdleStartup /\ IdlePersist
    /\ keyword \in Keywords
    /\ pcSearch = "idle"
    /\ spc = << >> /\ sleft = << >> /\ smsg = << >>
    /\ results = << >> /\ sClosed = FALSE

SpecSearch == InitSearch /\ [][SearchNext]_vars

-----------------------------------------------------------------------------
(* Properties of Search, checked under SpecSearch.                          *)

\* the offsets at which sub occurs in s
OccursAt(s, sub) ==
    { i \in 0..(Len(s) - Len(sub)) : SubSeq(s, i + 1, i + Len(sub)) = sub }

\* the largest number of occurrences of sub in s no two of which overlap
NonOverlapping(s, sub) ==
    LET disjoint(S) == \A i, j \in S : i # j => (i - j >= Len(sub) \/ j - i >= Len(sub))
        sizes == { Cardinality(S) : S \in { T \in SUBSET OccursAt(s, sub) : disjoint(T) } }
    IN  CHOOSE k \in sizes : \A m \in sizes : m <= k

\* the results a search of the store for the keyword owes: one per line
\* whose lower-cased text contains the lower-cased keyword
ExpectedResults ==
    UNION { { SearchResult(p, n, files[p].LineIndex[n],
                           NonOverlapping(ToLower(files[p].LineIndex[n]),
                                          ToLower(keyword))) :
                n \in { m \in DOMAIN files[p].LineIndex :
                          OccursAt(ToLower(files[p].LineIndex[m]),
                                   ToLower(keyword)) # {} } } :
            p \in DOMAIN files }

\* C3: cursor: for a non-empty keyword Search returns one result for each
\* line that contains it, case ignored, with the number of non-overlapping
\* occurrences, none for any other line, none lost and none twice, whatever
\* the order in which the file goroutines run
C3_SearchResultsExact ==
    (pcSearch = "returned" /\ keyword # << >>) =>
        /\ { results[i] : i \in 1..Len(results) } = ExpectedResults
        /\ \A i, j \in 1..Len(results) : i # j => results[i] # results[j]

\* a search that returned results from two files, one of them with several
\* occurrences on its line, and that left out a line without occurrence
C3_Witness ==
    /\ pcSearch = "returned" /\ keyword # << >>
    /\ \E i, j \in 1..Len(results) :
          /\ results[i].FilePath # results[j].FilePath
          /\ results[i].MatchCount > 1
    /\ \E p \in DOMAIN files : \E n \in DOMAIN files[p].LineIndex :
          \A i \in 1..Len(results) :
              ~(results[i].FilePath = p /\ results[i].LineNumber = n)

-----------------------------------------------------------------------------
(* cursor: the start of main: cache.Load and the reconciliation loop.       *)

\* os.Stat(path) returns no error
StatOK(outcome) == outcome \notin {"gone", "lstaterr"}

\* Cache.Load: what it returns for the file it finds.  No file: an empty
\* map and no error; a file json.Unmarshal rejects: an error; else the map
CacheLoad(file) ==
    IF file.state = "absent" THEN [err |-> FALSE, data |-> EmptyStore]
    ELSE IF file.state = "corrupt" THEN [err |-> TRUE, data |-> EmptyStore]
    ELSE [err |-> FALSE, data |-> Unmarshal(file.content)]

\* main, lines 34-37: data, err := cache.Load(); an error is only a warning
MainLoadCache ==
    /\ pcMain = "start"
    /\ LET r == CacheLoad(cacheFile)
       IN  /\ data' = r.data
           /\ todo' = DOMAIN r.data
           /\ pcMain' = IF r.err THEN "command" ELSE "reconcile"
           /\ ioErr' = IF r.err THEN "error" ELSE "nil"
    /\ UNCHANGED << fixedVars, lastSaved, fs, files, workers, runVars, snap,
                    cacheFile, searchVars >>

\* a GetFiles that hands out idx.files itself
GetFilesAliased == TRUE

\* Index.GetFiles returns idx.files itself: FALSE, the map it returns is a
\* new one made by make(), filled with the entries of idx.files
GetFilesIsStore == FALSE

\* main, lines 39-44: one iteration of the loop over the loaded records.
\* idx.GetFiles()[path] = entry puts the entry into the map GetFiles returned
ReconcileStep(p) ==
    /\ pcMain = "reconcile"
    /\ p \in todo
    /\ todo' = todo \ {p}
    /\ IF StatOK(fs[p])
       THEN /\ snap' = Put(CopyMap(files), data[p])
            /\ files' = IF GetFilesIsStore THEN Put(files, data[p]) ELSE files
       ELSE UNCHANGED << snap, files >>
    /\ UNCHANGED << fixedVars, persistVars, fs, workers, pcMain, runVars, cacheFile,
                    data, searchVars >>

\* the loop ends; main goes on to the command
ReconcileDone ==
    /\ pcMain = "reconcile"
    /\ todo = {}
    /\ pcMain' = "command"
    /\ UNCHANGED << fixedVars, persistVars, fs, files, workers, runVars, snap,
                    startVars, searchVars >>

\* main up to the search command.  Search is entered with the store the
\* reconciliation loop left; that store has no file, so Search starts no
\* file goroutine and only its own steps and its closer run
StartupNext ==
    \/ MainLoadCache
    \/ \E p \in Entries : ReconcileStep(p)
    \/ ReconcileDone
    \/ CallSearch
    \/ SearchCloser
    \/ SearchReturn

\* the cache files main may find: none, one that does not parse, or the
\* records an earlier run of the indexer saved
SavedStores ==
    { [p \in ps |-> FullEntry("cursor", p)] : ps \in SUBSET {PathA, PathC} }

\* the successful save that left the cache file, if one did
SaveThatLeft(file, stores) ==
    IF file.state = "saved"
    THEN [file |-> file, store |-> CHOOSE st \in stores : SavedCacheFile(st) = file]
    ELSE NoSave
CacheFiles ==
    { NoCacheFile, CorruptCacheFile } \cup { SavedCacheFile(st) : st \in SavedStores }

InitStartup ==
    /\ variant = "cursor"
    /\ rootOK = TRUE
    /\ fs \in [Entries -> {"ok", "gone"}]
    /\ disk = TreeBytes
    /\ files = EmptyStore
    /\ units \in 0..MaxWorkers
    /\ workers = NewIndex(units)
    /\ snap = EmptyStore
    /\ pcMain = "start"
    /\ IdleIndexing
    /\ cacheFile \in CacheFiles
    /\ lastSaved = SaveThatLeft(cacheFile, SavedStores)
    /\ ioErr = "none"
    /\ data = << >> /\ todo = {}
    /\ keyword \in { << "f","O","o" >>, << "x" >> }
    /\ pcSearch = "idle"
    /\ spc = << >> /\ sleft = << >> /\ smsg = << >>
    /\ results = << >> /\ sClosed = FALSE

SpecStartup == InitStartup /\ [][StartupNext]_vars

-----------------------------------------------------------------------------
(* Properties of the start of main, checked under SpecStartup.              *)

\* C2: cursor: once cache.Load succeeded and the reconciliation loop has
\* run, the store holds every loaded record whose path still exists, and
\* the search that follows reads them
C2_LoadedRecordsInStore ==
    pcMain \in {"command", "search"} =>
        /\ \A p \in DOMAIN data : StatOK(fs[p]) => p \in DOMAIN files
        /\ pcSearch # "idle" =>
              \A p \in DOMAIN data : StatOK(fs[p]) => p \in DOMAIN snap

-----------------------------------------------------------------------------
(* Persistence: Cache.Save / Indexer.SaveIndex at the end of an index       *)
(* command, and the search command of a later process that loads the file.  *)

\* cursor: Cache.Save up to the opening of the file by os.WriteFile: the
\* snapshot is taken, MkdirAll and the open may fail and leave the file as it
\* was; the open truncates the file.  windsurf: SaveIndex, os.Create
SaveCreate ==
    /\ pcMain = "save"
    /\ snap' = IF variant = "cursor" THEN CopyMap(files) ELSE snap
    /\ \E opened \in BOOLEAN :
          IF opened
          THEN /\ cacheFile' = CorruptCacheFile
               /\ pcMain' = "write"
               /\ UNCHANGED ioErr
          ELSE /\ ioErr' = "error"
               /\ pcMain' = "saved"
               /\ UNCHANGED cacheFile
    /\ UNCHANGED << fixedVars, lastSaved, fs, files, workers, runVars, data,
                    todo, searchVars >>

\* cursor: the write and close of os.WriteFile; windsurf: encoder.Encode(idx.index)
\* and the deferred file.Close().  The write completes, or it fails part-way
\* (no space left, I/O error, the process is killed) and an incomplete
\* document stays in the file
SaveWrite ==
    /\ pcMain = "write"
    /\ \E written \in BOOLEAN :
          IF written
          THEN LET store == IF variant = "cursor" THEN snap ELSE files
               IN  /\ cacheFile' = SavedCacheFile(store)
                   /\ lastSaved' = [file |-> SavedCacheFile(store), store |-> store]
                   /\ ioErr' = "nil"
          ELSE /\ cacheFile' = CorruptCacheFile
               /\ ioErr' = "error"
               /\ UNCHANGED lastSaved
    /\ pcMain' = "saved"
    /\ UNCHANGED << fixedVars, fs, files, workers, runVars, snap, data, todo,
                    searchVars >>

\* a later process starts with the search command.  cursor: main, NewIndex
\* and NewCache; windsurf: handleSearch, NewIndexer
ProcessStart ==
    /\ pcMain \in {"saved", "exit"}
    /\ files' = EmptyStore
    /\ snap' = EmptyStore
    /\ data' = << >> /\ todo' = {}
    /\ ioErr' = "none"
    /\ pcMain' = IF variant = "cursor" THEN "start" ELSE "loadindex"
    /\ UNCHANGED << fixedVars, lastSaved, fs, workers, runVars, cacheFile,
                    searchVars >>

\* the environment, between two processes: an indexed file is removed
RemoveFile(e) ==
    /\ pcMain \in {"saved", "exit"}
    /\ fs[e] = "ok"
    /\ fs' = [fs EXCEPT ![e] = "gone"]
    /\ UNCHANGED << fixedVars, persistVars, files, workers, pcMain, runVars,
                    snap, startVars, searchVars >>

\* windsurf: Indexer.LoadIndex: what it returns and what it leaves in
\* idx.index.  No file: the error of os.Open; a file the decoder rejects: its
\* error; else the decoded records are put into the map idx.index.Files holds
WindsurfLoadIndex(file, index) ==
    IF file.state # "saved" THEN [err |-> TRUE, index |-> index]
    ELSE LET loaded == Unmarshal(file.content)
         IN  [err |-> FALSE,
              index |-> [p \in (DOMAIN index) \cup (DOMAIN loaded) |->
                            IF p \in DOMAIN loaded THEN loaded[p] ELSE index[p]]]

\* windsurf: handleSearch: err := indexer.LoadIndex(); an error ends the
\* process with os.Exit(1)
LoadIndex ==
    /\ variant = "windsurf"
    /\ pcMain = "loadindex"
    /\ LET r == WindsurfLoadIndex(cacheFile, files)
       IN  /\ files' = r.index
           /\ ioErr' = IF r.err THEN "error" ELSE "nil"
           /\ pcMain' = IF r.err THEN "exit1" ELSE "wsearch"
    /\ UNCHANGED << fixedVars, lastSaved, fs, workers, runVars, snap, startVars,
                    searchVars >>

\* the sequences that list each element of a set once
Orderings(S) ==
    { q \in [1..Cardinality(S) -> S] : \A i, j \in 1..Cardinality(S) : i # j => q[i] # q[j] }

\* windsurf: the results Indexer.Search owes for a store and a lower-cased keyword
WindsurfMatches(store, kw) ==
    UNION { { [FilePath |-> store[p].Path, LineNumber |-> n] :
                n \in { m \in DOMAIN store[p].LineIndex :
                          Contains(ToLower(store[p].LineIndex[m]), kw) } } :
            p \in DOMAIN store }

\* windsurf: Indexer.Search under the read lock: the maps are ranged over in
\* an order the runtime chooses
WindsurfSearch ==
    /\ variant = "windsurf"
    /\ pcMain = "wsearch"
    /\ keyword' = ToLower(keyword)
    /\ results' \in Orderings(WindsurfMatches(files, ToLower(keyword)))
    /\ pcMain' = "searched"
    /\ UNCHANGED << fixedVars, persistVars, fs, files, workers, runVars, snap,
                    startVars, pcSearch, spc, sleft, smsg, sClosed >>

\* the end of an index command and the search command that follows it.  The
\* cursor Search is entered with the store the reconciliation loop left,
\* which has no file: only its own steps and its closer run
PersistNext ==
    \/ SaveCreate
    \/ SaveWrite
    \/ ProcessStart
    \/ \E e \in {PathA, PathC} : RemoveFile(e)
    \/ MainLoadCache
    \/ \E p \in Entries : ReconcileStep(p)
    \/ ReconcileDone
    \/ CallSearch
    \/ SearchCloser
    \/ SearchReturn
    \/ LoadIndex
    \/ WindsurfSearch

\* the trees the index command ran on: one of plain text, one with a line
\* that holds a byte that is not valid UTF-8
PersistDisks ==
    { TreeBytes,
      [TreeBytes EXCEPT ![PathA] = << "H", InvalidByte, LF, "f","o","o" >>] }

\* the stores IndexDirectory leaves for a tree
IndexedStores(v) ==
    { [p \in ps |-> FullEntry(v, p)] : ps \in SUBSET {PathA, PathC} }

\* an index command that is about to save its store, or no process running;
\* the cache file is absent, unparseable, or left by an earlier save
InitPersist ==
    /\ variant \in {"cursor", "windsurf"}
    /\ rootOK = TRUE
    /\ fs = [e \in Entries |-> "ok"]
    /\ disk \in PersistDisks
    /\ pcMain \in {"save", "exit"}
    /\ files \in IF pcMain = "save" THEN IndexedStores(variant) ELSE {EmptyStore}
    /\ units \in 1..MaxWorkers
    /\ workers = IF variant = "cursor" THEN NewIndex(units) ELSE NumWorkers
    /\ snap = EmptyStore
    /\ IdleIndexing
    /\ cacheFile \in { NoCacheFile, CorruptCacheFile }
                       \cup { SavedCacheFile(st) : st \in IndexedStores(variant) }
    /\ lastSaved = SaveThatLeft(cacheFile, IndexedStores(variant))
    /\ ioErr = "none"
    /\ data = << >> /\ todo = {}
    /\ keyword \in { << "f","O","o" >>, << "x" >> }
    /\ pcSearch = "idle"
    /\ spc = << >> /\ sleft = << >> /\ smsg = << >>
    /\ results = << >> /\ sClosed = FALSE

SpecPersist == InitPersist /\ [][PersistNext]_vars

-----------------------------------------------------------------------------
(* Properties of persistence, checked under SpecPersist.                    *)

\* the startup load of the search command has run and let the command go on
LoadDone ==
    IF variant = "cursor"
    THEN pcMain \in {"command", "search"} /\ ioErr = "nil"
    ELSE pcMain \in {"wsearch", "searched"}

\* the startup load has run, with or without an error
LoadAttempted ==
    IF variant = "cursor"
    THEN pcMain \in {"reconcile", "command", "search"}
    ELSE pcMain \in {"wsearch", "searched", "exit1"}

\* the search of the search command has returned
SearchDone ==
    IF variant = "cursor" THEN pcSearch = "returned" ELSE pcMain = "searched"

\* the paths the persisted cache holds a record for
CachedPaths == IF cacheFile.state = "saved" THEN DOMAIN cacheFile.content ELSE {}

\* what a variant's load returns for a cache file, on a fresh index
LoadOf(v, file) ==
    IF v = "cursor" THEN CacheLoad(file)
    ELSE [err |-> WindsurfLoadIndex(file, EmptyStore).err,
          data |-> WindsurfLoadIndex(file, EmptyStore).index]

\* C11: both variants: a path the persisted cache holds a record for and that
\* was removed before the startup has, after the startup load, no entry in
\* the store, and the search returns no result for it
C11_RemovedFileNotLoaded ==
    LoadDone =>
        \A p \in CachedPaths :
            fs[p] = "gone" =>
                /\ p \notin DOMAIN files
                /\ SearchDone => \A i \in 1..Len(results) : results[i].FilePath # p

\* C12: cursor: Cache.Load after a Cache.Save on the same file returns, with
\* no error, a mapping equal to the saved store: same paths, same lines
\* under the same numbers, same timestamps
C12_SaveLoadRoundTrip ==
    ( /\ variant = "cursor"
      /\ pcMain \in {"reconcile", "command", "search"}
      /\ cacheFile.state = "saved" /\ cacheFile = lastSaved.file ) =>
        /\ ioErr = "nil"
        /\ data = lastSaved.store

\* C13: both variants: while a save is under way, and after a save that
\* returned an error, loading the cache file still yields the mapping of the
\* last successful save
C13_FailedSaveKeepsPrevious ==
    ( /\ lastSaved # NoSave
      /\ pcMain = "write" \/ (pcMain = "saved" /\ ioErr = "error") ) =>
        LoadOf(variant, cacheFile) = LoadOf(variant, lastSaved.file)

\* C14: both variants: a load that finds no cache file gives an empty index
\* and no error, the command goes on and its search returns no result; a
\* load of a file that does not parse returns an error
C14_MissingCacheIsEmptyIndex ==
    LoadAttempted =>
        /\ cacheFile.state = "absent" =>
              /\ ioErr = "nil" /\ pcMain # "exit1"
              /\ files = EmptyStore
              /\ SearchDone => results = << >>
        /\ cacheFile.state = "corrupt" => ioErr = "error"

-----------------------------------------------------------------------------
(* cursor: main with the index command: the startup load, then handleIndex  *)
(* calls IndexDirectory on the Index the reconciliation loop was given.     *)

\* main, lines 58-68, and handleIndex up to its call of idx.IndexDirectory
CommandIndex ==
    /\ variant = "cursor"
    /\ pcMain = "command"
    /\ pcMain' = "idle"
    /\ UNCHANGED << fixedVars, persistVars, fs, files, workers, runVars, snap,
                    startVars, searchVars >>

MainNext ==
    \/ MainLoadCache
    \/ \E p \in Entries : ReconcileStep(p)
    \/ ReconcileDone
    \/ CommandIndex
    \/ CallIndexDirectory
    \/ MainReturn
    \/ WalkRoot
    \/ \E e \in Entries : WalkVisit(e)
    \/ \E w \in Workers : WalkSend(w)
    \/ WalkEnd
    \/ WalkReturned
    \/ \E w \in Workers : WorkerExit(w)
    \/ \E w \in Workers : WorkerOpen(w)
    \/ \E w \in Workers : WorkerScan(w)
    \/ \E w \in Workers : WorkerStore(w)
    \/ \E w \in Workers : WorkerSendErr(w)
    \/ CloserFire
    \/ GetFiles

\* the trees the index command is run on
MainTrees ==
    { t \in [Entries -> {"ok", "noopen", "gone"}] :
        /\ t[PathB] = "ok" /\ t[PathH] = "ok"
        /\ t[PathC] # "noopen" }

InitMain ==
    /\ variant = "cursor"
    /\ rootOK = TRUE
    /\ fs \in MainTrees
    /\ disk = TreeBytes
    /\ files = EmptyStore
    /\ units \in 1..MaxWorkers
    /\ workers = NewIndex(units)
    /\ snap = EmptyStore
    /\ pcMain = "start"
    /\ IdleIndexing
    /\ cacheFile \in CacheFiles
    /\ lastSaved = SaveThatLeft(cacheFile, SavedStores)
    /\ ioErr = "none"
    /\ data = << >> /\ todo = {}
    /\ IdleSearch

SpecMain == InitMain /\ [][MainNext]_vars

-----------------------------------------------------------------------------
(* Properties of Index.GetFiles, checked under SpecMain.                    *)

-----------------------------------------------------------------------------
(* cursor: the whole index command: the startup load, handleIndex with its  *)
(* one call of IndexDirectory, and Cache.Save.                              *)

\* handleIndex, line 95: idx.IndexDirectory(absPath), called once
HandleIndexCall ==
    /\ variant = "cursor"
    /\ pcMain = "idle"
    /\ CallIndexDirectory

\* handleIndex, lines 95-102: an error of IndexDirectory ends the process
\* with os.Exit(1); otherwise cache.Save(idx) is called
HandleIndexSave ==
    /\ variant = "cursor" /\ ~panicked
    /\ pcMain = "returned"
    /\ pcMain' = IF ret = "nil" THEN "save" ELSE "exit"
    /\ UNCHANGED << fixedVars, persistVars, fs, files, workers, runVars, snap,
                    startVars, searchVars >>

IndexCommandNext ==
    \/ MainLoadCache
    \/ \E p \in Entries : ReconcileStep(p)
    \/ ReconcileDone
    \/ CommandIndex
    \/ HandleIndexCall
    \/ MainReturn
    \/ WalkRoot
    \/ \E e \in Entries : WalkVisit(e)
    \/ \E w \in Workers : WalkSend(w)
    \/ WalkEnd
    \/ WalkReturned
    \/ \E w \in Workers : WorkerExit(w)
    \/ \E w \in Workers : WorkerOpen(w)
    \/ \E w \in Workers : WorkerScan(w)
    \/ \E w \in Workers : WorkerStore(w)
    \/ \E w \in Workers : WorkerSendErr(w)
    \/ CloserFire
    \/ HandleIndexSave
    \/ SaveCreate
    \/ SaveWrite

\* the index command is given a root that can be read or one that cannot
\* (it does not exist, or it may not be opened), and finds any cache file
InitIndexCommand ==
    /\ variant = "cursor"
    /\ rootOK \in BOOLEAN
    /\ fs \in IF rootOK THEN MainTrees ELSE { [e \in Entries |-> "gone"] }
    /\ disk = TreeBytes
    /\ files = EmptyStore
    /\ units \in 1..MaxWorkers
    /\ workers = NewIndex(units)
    /\ snap = EmptyStore
    /\ pcMain = "start"
    /\ IdleIndexing
    /\ cacheFile \in CacheFiles
    /\ lastSaved = SaveThatLeft(cacheFile, SavedStores)
    /\ ioErr = "none"
    /\ data = << >> /\ todo = {}
    /\ IdleSearch

SpecIndexCommand == InitIndexCommand /\ [][IndexCommandNext]_vars

\* C23: cursor: when an index command whose root cannot be traversed has
\* ended and no save of it failed, a cache file that held records at the
\* start of the process still loads to those records
C23_FailedIndexKeepsCache ==
    ( /\ ~rootOK
      /\ DOMAIN data # {}
      /\ pcMain \in {"saved", "exit"} /\ ioErr # "error" ) =>
        /\ ~CacheLoad(cacheFile).err
        /\ CacheLoad(cacheFile).data = data

-----------------------------------------------------------------------------
(* indexFile on files of every shape: a run over a tree with one file.      *)

ScanNext ==
    \/ CallIndexDirectory
    \/ MainEndCollect
    \/ MainReturn
    \/ WalkRoot
    \/ \E e \in Entries : WalkVisit(e)
    \/ \E w \in Workers : WalkSend(w)
    \/ WalkEnd
    \/ WalkReturned
    \/ WalkCloseErrors
    \/ \E w \in Workers : WorkerExit(w)
    \/ \E w \in Workers : WorkerOpen(w)
    \/ \E w \in Workers : WorkerScan(w)
    \/ \E w \in Workers : WorkerStore(w)
    \/ \E w \in Workers : WorkerSendResult(w)
    \/ \E w \in Workers : WorkerSendErr(w)
    \/ CloserFire
    \/ CollectInsert
    \/ CollectDone

\* the tree holds the one file /r/a.txt, readable, with any of the contents
InitScan ==
    /\ variant \in {"cursor", "windsurf"}
    /\ rootOK = TRUE
    /\ fs = [e \in Entries |-> IF e = PathA THEN "ok" ELSE "gone"]
    /\ \E d \in ScanInputs : disk = [TreeBytes EXCEPT ![PathA] = d]
    /\ files = EmptyStore
    /\ units = 1
    /\ workers = IF variant = "cursor" THEN NewIndex(units) ELSE NumWorkers
    /\ snap = EmptyStore
    /\ pcMain = "idle"
    /\ IdleIndexing /\ IdleStartup /\ IdlePersist /\ IdleSearch

SpecScan == InitScan /\ [][ScanNext]_vars

\* the positions of the line feeds of d
LFPositions(d) == { i \in 1..Len(d) : d[i] = LF }

\* the number of line-feed-delimited segments of d: one for each line feed,
\* and one more for bytes that follow the last line feed
Segments(d) ==
    Cardinality(LFPositions(d))
        + (IF Len(d) > 0 /\ d[Len(d)] # LF THEN 1 ELSE 0)

\* where segment n of d starts and where it ends
SegmentStart(d, n) ==
    IF n = 1 THEN 1
    ELSE 1 + CHOOSE i \in LFPositions(d) :
                 Cardinality({ j \in LFPositions(d) : j <= i }) = n - 1
SegmentEnd(d, n) ==
    IF n > Cardinality(LFPositions(d)) THEN Len(d)
    ELSE (CHOOSE i \in LFPositions(d) :
             Cardinality({ j \in LFPositions(d) : j <= i }) = n) - 1

\* the bytes of segment n of d
SegmentText(d, n) == SubSeq(d, SegmentStart(d, n), SegmentEnd(d, n))

\* C18: cursor: the keys of a stored record are 1..N for the N segments of its
\* file, a last segment without line feed counted and nothing counted after
\* a trailing line feed; key n holds segment n, an empty one as well
C18_LineKeysAreSegments ==
    variant = "cursor" =>
        \A p \in DOMAIN files :
            /\ DOMAIN files[p].LineIndex = 1..Segments(disk[p])
            /\ \A n \in DOMAIN files[p].LineIndex :
                  files[p].LineIndex[n] = SegmentText(disk[p], n)

\* the record of a file with an empty line in the middle and a last line
\* without line feed
C18_Witness ==
    /\ variant = "cursor" /\ Returned
    /\ disk[PathA] = << "a", LF, LF, "a" >>
    /\ PathA \in DOMAIN files
    /\ DOMAIN files[PathA].LineIndex = 1..3
    /\ files[PathA].LineIndex[2] = << >>

\* C19: both variants: a readable file that passes the eligibility checks is
\* in the store when the run has returned, with every line whole, whatever
\* the length of its lines
C19_LongLinesAreIndexed ==
    Returned =>
        \A e \in Entries :
            (fs[e] = "ok" /\ VisitAct(e) = "send") =>
                /\ KeyOf(variant, e) \in DOMAIN files
                /\ files[KeyOf(variant, e)] = FullEntry(variant, e)

-----------------------------------------------------------------------------
(* cursor: one IndexDirectory call after another under a fair scheduler.    *)

\* the steps of the walker goroutine; a send is a step of the walker that
\* a worker waiting in its range takes part in
WalkerStep ==
    \/ WalkRoot
    \/ \E w \in Workers : WalkSend(w)
    \/ WalkEnd
    \/ WalkReturned
    \/ \E e \in Entries : WalkVisit(e)

\* the steps of one worker goroutine
WorkerStep(w) ==
    \/ WorkerExit(w)
    \/ WorkerOpen(w)
    \/ WorkerScan(w)
    \/ WorkerStore(w)
    \/ WorkerSendErr(w)

\* the steps of the goroutines IndexDirectory started and of its own range
\* over errors
GoroutineStep ==
    \/ MainReturn
    \/ CloserFire
    \/ \E w \in Workers : WorkerStep(w)
    \/ WalkerStep

\* the Go scheduler does not stop while a goroutine can take a step.  Whether
\* IndexDirectory is called again is up to the caller
Fairness == WF_vars(GoroutineStep)

LiveNext ==
    \/ CallIndexDirectory
    \/ GoroutineStep

InitLive ==
    /\ variant = "cursor"
    /\ rootOK \in BOOLEAN
    /\ fs \in IF rootOK THEN Trees ELSE { [e \in Entries |-> "gone"] }
    /\ disk = TreeBytes
    /\ files = EmptyStore
    /\ units \in 0..MaxWorkers
    /\ workers = NewIndex(units)
    /\ snap = EmptyStore
    /\ pcMain = "idle"
    /\ IdleIndexing /\ IdleStartup /\ IdlePersist /\ IdleSearch

SpecLive == InitLive /\ [][LiveNext]_vars /\ Fairness

\* C16: cursor: every call of IndexDirectory returns, with the walker, every
\* worker and the closer finished; the errors channel is closed by the closer
\* alone, when no goroutine has a send on it left, and no send panics
C16_IndexDirectoryTerminates ==
    /\ (pcMain = "collect") ~>
          ( /\ Returned /\ pcWalk = "done" /\ pcCloser = "done"
            /\ \A w \in Workers : wpc[w] \in {"off", "done"} )
    /\ [](errorsClosed =>
            /\ pcCloser = "done" /\ pcWalk = "done"
            /\ \A w \in Workers : wpc[w] \in {"off", "done"})
    /\ [](~panicked)

\* a call that returned after two workers took paths, one scan failed with
\* an error sent to the caller and another file was stored
C16_Witness ==
    /\ Returned /\ workers = 2
    /\ failed # {} /\ inserted # {}
    /\ nErrs > 0 /\ errorsClosed

-----------------------------------------------------------------------------
(* cursor: search.Search under a fair scheduler.                            *)

\* the steps of the goroutines Search started and of its own range over the
\* results channel
SearchStep ==
    \/ SearchReturn
    \/ SearchCloser
    \/ \E p \in DOMAIN spc : SearchFileDone(p)
    \/ \E p \in DOMAIN spc : SearchSend(p)
    \/ \E p \in DOMAIN spc : \E n \in sleft[p] : SearchLine(p, n)

\* the Go scheduler does not stop while a goroutine of the search can take a
\* step
SearchFairness == WF_vars(SearchStep)

SpecSearchLive == InitSearch /\ [][SearchNext]_vars /\ SearchFairness

\* every file goroutine of the search returned
SearchGoroutinesDone == \A p \in DOMAIN spc : spc[p] = "done"

\* C17: cursor: every call of Search returns, with every file goroutine
\* finished; the results channel is closed when no goroutine has a send on it
\* left, and a search of an empty store returns no result
C17_SearchTerminates ==
    /\ (pcSearch = "collect") ~> (pcSearch = "returned" /\ SearchGoroutinesDone)
    /\ [](sClosed => SearchGoroutinesDone)
    /\ []((pcSearch = "returned" /\ files = EmptyStore) => results = << >>)

\* a search of two files that returned after each of them sent a result
C17_Witness ==
    /\ pcSearch = "returned" /\ sClosed
    /\ DOMAIN snap = {PathA, PathC}
    /\ \E i, j \in 1..Len(results) :
          results[i].FilePath = PathA /\ results[j].FilePath = PathC

====
